---- MODULE Spec2Model ----
(***************************************************************************)
(* A model of volatrivia (src/__init__.py): the trivia question pool, the  *)
(* fuzzy answer matcher, the Game score keeper and the TriviaCommand       *)
(* controller driven by chat lines and pulses.                             *)
(*                                                                         *)
(* Python strings are sequences of one-character strings.  None is the     *)
(* empty sequence <<>> and an object reference is a one-element sequence   *)
(* holding the object's record, so "x is None" reads x = <<>>.             *)
(***************************************************************************)
EXTENDS Integers, Sequences, FiniteSets, TLC

(***************************************************************************)
(* Text helpers                                                            *)
(***************************************************************************)

LowerCase ==
    <<"a", "b", "c", "d", "e", "f", "g", "h", "i", "j", "k", "l", "m",
      "n", "o", "p", "q", "r", "s", "t", "u", "v", "w", "x", "y", "z">>
UpperCase ==
    <<"A", "B", "C", "D", "E", "F", "G", "H", "I", "J", "K", "L", "M",
      "N", "O", "P", "Q", "R", "S", "T", "U", "V", "W", "X", "Y", "Z">>
Digits == <<"0", "1", "2", "3", "4", "5", "6", "7", "8", "9">>

\* The characters of a sequence of characters.
Chars(seq) == {seq[i] : i \in 1..Len(seq)}

\* str.casefold() on ASCII: a capital becomes its small letter.
CaseFoldChar(c) ==
    IF c \in Chars(UpperCase)
    THEN LowerCase[CHOOSE i \in 1..Len(UpperCase) : UpperCase[i] = c]
    ELSE c

CaseFold(s) == [i \in 1..Len(s) |-> CaseFoldChar(s[i])]

\* \s of the regular expression and the characters str.strip() removes.
IsSpace(c) == c \in {" ", "\n", "\r", "\t"}

\* \w of the regular expression: letters, digits and the underscore.
IsWord(c) == c \in Chars(LowerCase) \cup Chars(UpperCase) \cup Chars(Digits) \cup {"_"}

\* \b before position i of s (i in 1..Len(s)+1).
Boundary(s, i) ==
    LET before == i > 1 /\ IsWord(s[i - 1])
        after  == i <= Len(s) /\ IsWord(s[i])
    IN  before # after

\* s has the literal w at position i.
HasAt(s, i, w) ==
    /\ i + Len(w) - 1 <= Len(s)
    /\ \A k \in 1..Len(w) : s[i + k - 1] = w[k]

\* \b(?:the|an?|of)\b at position i: the length matched, 0 for no match.
\* The alternatives are tried in the order written, an? greedy first.
StopWordLen(s, i) ==
    LET try(w) == HasAt(s, i, w) /\ Boundary(s, i + Len(w))
    IN  IF ~Boundary(s, i) THEN 0
        ELSE IF try(<<"t", "h", "e">>) THEN 3
        ELSE IF try(<<"a", "n">>) THEN 2
        ELSE IF try(<<"a">>) THEN 1
        ELSE IF try(<<"o", "f">>) THEN 2
        ELSE 0

\* \s+ at position i: the length of the run of white space.
RECURSIVE SpaceRunLen(_, _)
SpaceRunLen(s, i) ==
    IF i <= Len(s) /\ IsSpace(s[i]) THEN 1 + SpaceRunLen(s, i + 1) ELSE 0

\* <[^<]*> at position i: greedy, so up to the last > before the next <.
TagLen(s, i) ==
    IF s[i] # "<" THEN 0
    ELSE LET ends == {j \in (i + 1)..Len(s) :
                         /\ s[j] = ">"
                         /\ \A k \in (i + 1)..(j - 1) : s[k] # "<"}
         IN  IF ends = {} THEN 0
             ELSE (CHOOSE j \in ends : \A k \in ends : k <= j) - i + 1

\* r_cleanup at position i: the length of the match, 0 for no match.
\* [\r\n]+ never gets its turn: \s+ before it matches the same characters.
CleanupMatchLen(s, i) ==
    IF SpaceRunLen(s, i) > 0 THEN SpaceRunLen(s, i)
    ELSE IF StopWordLen(s, i) > 0 THEN StopWordLen(s, i)
    ELSE IF s[i] \in {".", "!", "_", ",", "?", "(", ")", "-"} THEN 1
    ELSE TagLen(s, i)

\* r_cleanup.sub(" ", s) from position i on: leftmost matches, left to right.
RECURSIVE CleanupSub(_, _)
CleanupSub(s, i) ==
    IF i > Len(s) THEN <<>>
    ELSE LET m == CleanupMatchLen(s, i)
         IN  <<IF m > 0 THEN " " ELSE s[i]>>
                 \o CleanupSub(s, IF m > 0 THEN i + m ELSE i + 1)

RECURSIVE LStrip(_)
LStrip(s) == IF s # <<>> /\ IsSpace(Head(s)) THEN LStrip(Tail(s)) ELSE s

RECURSIVE RStrip(_)
RStrip(s) ==
    IF s # <<>> /\ IsSpace(s[Len(s)]) THEN RStrip(SubSeq(s, 1, Len(s) - 1)) ELSE s

\* str.strip()
Strip(s) == RStrip(LStrip(s))

\* The loop of Question.cleanup: substitute and strip until nothing changes.
RECURSIVE CleanupLoop(_)
CleanupLoop(string) ==
    LET newstr == Strip(CleanupSub(string, 1))
    IN  IF newstr = string THEN string ELSE CleanupLoop(newstr)

\* Question.cleanup
Cleanup(string) == CleanupLoop(CaseFold(string))

(***************************************************************************)
(* difflib.SequenceMatcher(None, a, b).ratio() without junk.               *)
(***************************************************************************)

\* The length of the common run of a from i and b from j inside the windows.
RECURSIVE CommonLen(_, _, _, _, _, _)
CommonLen(a, b, i, j, ahi, bhi) ==
    IF i <= ahi /\ j <= bhi /\ a[i] = b[j]
    THEN 1 + CommonLen(a, b, i + 1, j + 1, ahi, bhi)
    ELSE 0

\* find_longest_match: the longest block, of those the one starting earliest
\* in a, and of those the one starting earliest in b.
FindLongestMatch(a, b, alo, ahi, blo, bhi) ==
    LET blocks == {<<i, j, CommonLen(a, b, i, j, ahi, bhi)>> :
                      i \in alo..ahi, j \in blo..bhi}
        k == CHOOSE n \in {c[3] : c \in blocks} : \A c \in blocks : c[3] <= n
        longest == {c \in blocks : c[3] = k}
        i == CHOOSE n \in {c[1] : c \in longest} : \A c \in longest : n <= c[1]
        j == CHOOSE n \in {c[2] : c \in {d \in longest : d[1] = i}} :
                 \A c \in {d \in longest : d[1] = i} : n <= c[2]
    IN  [i |-> i, j |-> j, k |-> k]

\* The summed size of get_matching_blocks: the windows of queue are matched
\* one after the other, each leaving the windows left and right of its block.
RECURSIVE MatchingSize(_, _, _)
MatchingSize(a, b, queue) ==
    IF queue = <<>> THEN 0
    ELSE LET w == Head(queue)
             m == IF w.alo > w.ahi \/ w.blo > w.bhi
                  THEN [i |-> 0, j |-> 0, k |-> 0]
                  ELSE FindLongestMatch(a, b, w.alo, w.ahi, w.blo, w.bhi)
             more == IF m.k = 0 THEN <<>>
                     ELSE <<[alo |-> w.alo, ahi |-> m.i - 1,
                             blo |-> w.blo, bhi |-> m.j - 1],
                            [alo |-> m.i + m.k, ahi |-> w.ahi,
                             blo |-> m.j + m.k, bhi |-> w.bhi]>>
         IN  m.k + MatchingSize(a, b, Tail(queue) \o more)

\* Question.ratio = 0.87, as a fraction.
RatioNum == 87
RatioDen == 100

\* ratio() >= Question.ratio, with ratio() = 2.0 * matches / length and 1.0
\* for two empty strings.
RatioAccepts(a, b) ==
    LET matches == MatchingSize(a, b,
                       <<[alo |-> 1, ahi |-> Len(a), blo |-> 1, bhi |-> Len(b)]>>)
        length  == Len(a) + Len(b)
    IN  IF length = 0 THEN TRUE
        ELSE 2 * matches * RatioDen >= RatioNum * length

\* Question.check without the test for an empty answer.
QuestionCheckAnyAnswer(self, answer) ==
    RatioAccepts(Cleanup(self.answer), Cleanup(answer))

\* Question.check
QuestionCheck(self, answer) ==
    LET cleaned == Cleanup(answer)
    IN  IF cleaned = <<>> THEN FALSE
        ELSE RatioAccepts(Cleanup(self.answer), cleaned)

(***************************************************************************)
(* Texts of the model                                                      *)
(***************************************************************************)

\* A long text (a question) is known by its name, its length, the number of
\* &amp; entities in it and the white space around it; head and opts are the
\* prefixes and the answer options the formats add.
Text(body, len, ents, pad) ==
    [head |-> <<>>, body |-> body, opts |-> <<>>, len |-> len, ents |-> ents, pad |-> pad]

sCat      == <<"C", "a", "t">>
sTheCat   == <<"T", "h", "e", " ", "c", "a", "t", "!">>
sDog      == <<"d", "o", "g">>
sThe      == <<"t", "h", "e">>
sTrue     == <<" ", "T", "r", "u", "e">>
sFalse    == <<"F", "a", "l", "s", "e">>
sAlphabet == <<"a", "b", "c", "d", "e">>
sAlphabe  == <<"a", "b", "c", "d">>
sAmp      == <<"a", "&", "a", "m", "p", ";", "b">>

\* What players type while a game runs (msg.msg).
ChatTexts == {<<>>, sDog, sTheCat, sAlphabe, sThe, <<"T", "r", "u", "e">>}

\* The arguments of !trivia (remainder).
Remainders ==
    {<<>>, <<"x">>, <<"0">>, <<"-", "1">>, <<"1">>, <<" ", "2", " ">>}

\* msg.nick
Nicks == {"alice", "bob"}

(***************************************************************************)
(* unesc                                                                   *)
(***************************************************************************)

\* html.unescape on the entity the model's texts use: &amp; becomes &.
RECURSIVE HtmlUnescape(_)
HtmlUnescape(s) ==
    IF s = <<>> THEN <<>>
    ELSE LET entity == HasAt(s, 1, <<"&", "a", "m", "p", ";">>)
         IN  <<IF entity THEN "&" ELSE Head(s)>>
                 \o HtmlUnescape(SubSeq(s, IF entity THEN 6 ELSE 2, Len(s)))

\* unesc on a short string
Unesc(string) == Strip(HtmlUnescape(string))

\* unesc on a long text: each &amp; loses 4 characters, the padding goes.
UnescText(t) ==
    [t EXCEPT !.len = t.len - 4 * t.ents - t.pad, !.ents = 0, !.pad = 0]

\* "<prefix>{}".format(t) for a prefix of n characters
Prefixed(prefix, n, t) ==
    [t EXCEPT !.head = <<prefix>> \o t.head, !.len = t.len + n]

RECURSIVE SumLen(_)
SumLen(strs) == IF strs = <<>> THEN 0 ELSE Len(Head(strs)) + SumLen(Tail(strs))

\* "{}\n[{}]".format(t, "] [".join(answers))
WithOptions(t, answers) ==
    [t EXCEPT !.opts = answers,
              !.len = t.len + 2 + SumLen(answers) + 3 * (Len(answers) - 1) + 1]

(***************************************************************************)
(* Pool                                                                    *)
(***************************************************************************)

\* Question(id, question, answer)
Question(id, question, answer) ==
    [id |-> id, question |-> question, answer |-> answer]

\* The rendered questions longer than this are not kept.
MaxQuestionLen == 300
\* The jservice values above this are not kept; a falsy value counts as
\* DefaultValue.
MaxValue == 800
\* A default that is not above MaxValue.
DefaultValueKept == MaxValue - 300
DefaultValue == 1000

\* random.shuffle(seq): every order is possible.
Shuffles(seq) ==
    {[i \in 1..Len(seq) |-> seq[p[i]]] : p \in Permutations(1..Len(seq))}

\* What requests.get(...).json() gives: an exception, or the items.
Raises == [raises |-> TRUE, items |-> <<>>]
Gives(items) == [raises |-> FALSE, items |-> items]

\* opentdb items; bad lacks the key correct_answer.
ItemA(type, question, correct, incorrect) ==
    [bad |-> FALSE, type |-> type, question |-> question,
     correct_answer |-> correct, incorrect_answers |-> incorrect]
BadItemA == [bad |-> TRUE]

aBool  == ItemA("boolean", Text("sky", 30, 1, 2), sTrue, <<sFalse>>)
aMulti == ItemA("multiple", Text("letters", 40, 0, 0), sAlphabet, <<sAmp>>)
aLong  == ItemA("boolean", Text("essay", 280, 0, 0), sTrue, <<sFalse>>)

ResponsesA == {Raises, Gives(<<aBool, BadItemA>>), Gives(<<aLong, aMulti>>)}

\* jservice items; value is <<>> when the key is absent, else <<v>>; bad
\* lacks the key answer.
ItemB(value, question, answer) ==
    [bad |-> FALSE, value |-> value, question |-> question, answer |-> answer]
BadItemB == [bad |-> TRUE, value |-> <<200>>]

bCat     == ItemB(<<800>>, Text("pet", 292, 0, 0), sCat)
bNoValue == ItemB(<<>>, Text("free", 50, 0, 0), sDog)
bZero    == ItemB(<<0>>, Text("zero", 50, 0, 0), sDog)
bDear    == ItemB(<<1000>>, Text("dear", 50, 0, 0), sDog)
bLong    == ItemB(<<200>>, Text("saga", 293, 0, 0), sDog)
bThe     == ItemB(<<100>>, Text("article", 60, 0, 0), sThe)

ResponsesB ==
    {Raises, Gives(<<bNoValue, bZero, bDear, bLong, bCat, BadItemB>>),
     Gives(<<bThe, bCat>>)}

\* The renderings of the question of an opentdb item, one for each order
\* random.shuffle can give the answers.
Renderings(i) ==
    IF i.type = "boolean"
    THEN {Prefixed("True of false: ", 15, UnescText(i.question))}
    ELSE {WithOptions(UnescText(i.question), answers) :
            answers \in Shuffles(
                [k \in 1..Len(i.incorrect_answers) |-> Unesc(i.incorrect_answers[k])]
                    \o <<Unesc(i.correct_answer)>>)}

\* The lists the opentdb loop of seed can leave in self.questions.  An item
\* that raises ends the loop and keeps what was appended before it.
RECURSIVE SeedOpentdb(_, _)
SeedOpentdb(items, questions) ==
    IF items = <<>> \/ Head(items).bad THEN {questions}
    ELSE LET i == Head(items)
             answer == Unesc(i.correct_answer)
             kept(r) == LET question == Prefixed("Trivia: ", 8, r)
                        IN  IF question.len > MaxQuestionLen THEN questions
                            ELSE Append(questions, Question(0, question, answer))
         IN  UNION {SeedOpentdb(Tail(items), kept(r)) : r \in Renderings(i)}

\* The list after the jservice loop of seed.
RECURSIVE SeedJservice(_, _)
SeedJservice(items, questions) ==
    IF items = <<>> THEN questions
    ELSE LET i == Head(items)
             got == IF i.value = <<>> THEN 0 ELSE i.value[1]
             value == IF got = 0 THEN DefaultValue ELSE got
             raises == value <= MaxValue /\ i.bad
             question == Prefixed("Trivia: ", 8, i.question)
             keep == value <= MaxValue /\ question.len <= MaxQuestionLen
         IN  IF raises THEN questions
             ELSE SeedJservice(Tail(items),
                      IF keep THEN Append(questions, Question(0, question, i.answer))
                      ELSE questions)

\* Pool.seed: the lists self.questions can be afterwards, given what the two
\* sources answer.
Seed(questions, opentdb, jservice) ==
    UNION {Shuffles(SeedJservice(jservice.items, q)) :
              q \in SeedOpentdb(opentdb.items, questions)}

\* Pool.get_question returning self.questions[-1] in place of the pop().
GetQuestionPeeks(questions, opentdb, jservice) ==
    LET seeded == IF questions = <<>> THEN Seed(questions, opentdb, jservice)
                  ELSE {questions}
    IN  {IF q = <<>> THEN [questions |-> q, value |-> <<>>]
         ELSE [questions |-> q, value |-> <<q[Len(q)]>>]
         : q \in seeded}

\* Pool.get_question: the pairs of the list afterwards and the value returned
\* (<<>> for None).
GetQuestion(questions, opentdb, jservice) ==
    LET seeded == IF questions = <<>> THEN Seed(questions, opentdb, jservice)
                  ELSE {questions}
    IN  {IF q = <<>> THEN [questions |-> q, value |-> <<>>]
         ELSE [questions |-> SubSeq(q, 1, Len(q) - 1), value |-> <<q[Len(q)]>>]
         : q \in seeded}

\* Pool.question: the class creates its instance on first use.
PoolQuestion(inst, opentdb, jservice) ==
    LET questions == IF inst = <<>> THEN <<>> ELSE inst[1].questions
    IN  {[instance |-> <<[questions |-> r.questions]>>, value |-> r.value]
         : r \in GetQuestion(questions, opentdb, jservice)}

\* The answers of the questions the two sources hold.
AnswerTexts ==
    UNION {{Unesc(r.items[k].correct_answer) :
               k \in {n \in 1..Len(r.items) : ~r.items[n].bad}} : r \in ResponsesA}
    \cup UNION {{r.items[k].answer :
                    k \in {n \in 1..Len(r.items) : ~r.items[n].bad}} : r \in ResponsesB}

\* Question.check on the texts of the model, worked out once.
Checked ==
    {<<a, t, QuestionCheck([answer |-> a], t)>> : a \in AnswerTexts, t \in ChatTexts}

\* self._question.check(answer): looked up in Checked where it is listed.
Check(self, answer) ==
    IF self.answer \in AnswerTexts /\ answer \in ChatTexts
    THEN <<self.answer, answer, TRUE>> \in Checked
    ELSE QuestionCheck(self, answer)

(***************************************************************************)
(* Game                                                                    *)
(***************************************************************************)

\* Game.__init__
Game(towin) == [towin |-> towin, counts |-> <<>>, _question |-> <<>>]

\* Counter.__getitem__ on counts, the (key, count) pairs in insertion order.
CountOf(counts, k) ==
    IF \E i \in 1..Len(counts) : counts[i][1] = k
    THEN counts[CHOOSE i \in 1..Len(counts) : counts[i][1] = k][2]
    ELSE 0

\* counts[k] += 1: a new key goes last.
Increment(counts, k) ==
    IF \E i \in 1..Len(counts) : counts[i][1] = k
    THEN [i \in 1..Len(counts) |->
             IF counts[i][1] = k THEN <<k, counts[i][2] + 1>> ELSE counts[i]]
    ELSE Append(counts, <<k, 1>>)

\* The property Game.question: the outcomes, each the game and the pool
\* afterwards and the value read (<<>> for None).
GameQuestion(g, inst, opentdb, jservice) ==
    IF g._question = <<>>
    THEN {[game |-> [g EXCEPT !._question = r.value],
           instance |-> r.instance, value |-> r.value]
          : r \in PoolQuestion(inst, opentdb, jservice)}
    ELSE {[game |-> g, instance |-> inst, value |-> g._question]}

\* Game.check with the threshold compared by > in place of >=.
GameCheckLate(g, answerer, answer) ==
    IF g._question = <<>>
    THEN [game |-> g, res |-> "none", raised |-> "ValueError"]
    ELSE IF Check(g._question[1], answer)
    THEN LET counts == Increment(g.counts, answerer)
         IN  [game |-> [g EXCEPT !.counts = counts],
              res |-> IF CountOf(counts, answerer) > g.towin THEN "WON" ELSE "CORRECT",
              raised |-> "none"]
    ELSE [game |-> g, res |-> "INCORRECT", raised |-> "none"]

\* Game.check counting the answer before it is checked.
GameCheckEager(g, answerer, answer) ==
    IF g._question = <<>>
    THEN [game |-> g, res |-> "none", raised |-> "ValueError"]
    ELSE LET counts == Increment(g.counts, answerer)
         IN  IF Check(g._question[1], answer)
             THEN [game |-> [g EXCEPT !.counts = counts],
                   res |-> IF CountOf(counts, answerer) >= g.towin
                           THEN "WON" ELSE "CORRECT",
                   raised |-> "none"]
             ELSE [game |-> [g EXCEPT !.counts = counts],
                   res |-> "INCORRECT", raised |-> "none"]

\* Game.check: the game afterwards and the Result, or the exception raised.
GameCheck(g, answerer, answer) ==
    IF g._question = <<>>
    THEN [game |-> g, res |-> "none", raised |-> "ValueError"]
    ELSE IF Check(g._question[1], answer)
    THEN LET counts == Increment(g.counts, answerer)
         IN  [game |-> [g EXCEPT !.counts = counts],
              res |-> IF CountOf(counts, answerer) >= g.towin THEN "WON" ELSE "CORRECT",
              raised |-> "none"]
    ELSE [game |-> g, res |-> "INCORRECT", raised |-> "none"]

\* Game.skip that forgets to clear the question.
GameSkipKeeps(g) == g

\* Game.skip
GameSkip(g) == [g EXCEPT !._question = <<>>]

\* sorted(..., key=key, reverse=True): by count, the larger first, equal counts
\* in their first order.
RECURSIVE SortedByCount(_)
SortedByCount(items) ==
    IF items = <<>> THEN <<>>
    ELSE LET x == items[Len(items)]
             rest == SortedByCount(SubSeq(items, 1, Len(items) - 1))
             before == SelectSeq(rest, LAMBDA y : y[2] >= x[2])
             after == SelectSeq(rest, LAMBDA y : y[2] < x[2])
         IN  before \o <<x>> \o after

\* How many leaders Game.__str__ shows.
MaxLeaders == 5

\* Game.__str__: "Leaders: " and the first entries <<rank, nick, count>>.
GameStr(g) ==
    LET scores == SortedByCount(g.counts)
        shown == IF Len(scores) > MaxLeaders THEN MaxLeaders ELSE Len(scores)
    IN  [prefix |-> "Leaders: ",
         scores |-> [i \in 1..shown |-> <<i, scores[i][1], scores[i][2]>>]]

(***************************************************************************)
(* TriviaCommand                                                           *)
(***************************************************************************)

\* TriviaCommand.timeout
Timeout == 30

\* The threshold of a game started with an argument that is no number.
DefaultTowin == 5
\* The least threshold.
MinTowin == 1

\* The value of a string of digits and single underscores between them.
RECURSIVE DigitsValue(_, _)
DigitsValue(s, acc) ==
    IF s = <<>> THEN acc
    ELSE DigitsValue(Tail(s),
             IF Head(s) = "_" THEN acc
             ELSE 10 * acc + (CHOOSE d \in 0..9 : Digits[d + 1] = Head(s)))

\* int(string): <<n>>, or <<>> for the ValueError.
IntOf(string) ==
    LET t == Strip(string)
        signed == t # <<>> /\ Head(t) \in {"+", "-"}
        body == IF signed THEN Tail(t) ELSE t
        wellFormed ==
            /\ body # <<>>
            /\ \A i \in 1..Len(body) : body[i] \in Chars(Digits) \cup {"_"}
            /\ body[1] # "_" /\ body[Len(body)] # "_"
            /\ \A i \in 1..(Len(body) - 1) : ~(body[i] = "_" /\ body[i + 1] = "_")
    IN  IF ~wellFormed THEN <<>>
        ELSE IF signed /\ Head(t) = "-" THEN <<0 - DigitsValue(body, 0)>>
        ELSE <<DigitsValue(body, 0)>>

\* towin without the max(1, ...).
ParseTowinUnclamped(remainder) ==
    LET n == IntOf(Strip(remainder))
    IN  IF n = <<>> THEN DefaultTowin ELSE n[1]

\* towin of __call__: max(1, int(remainder.strip())), 5 when int raises.
ParseTowin(remainder) ==
    LET n == IntOf(Strip(remainder))
    IN  IF n = <<>> THEN DefaultTowin
        ELSE IF n[1] > MinTowin THEN n[1] ELSE MinTowin

\* self.post(template, *args): one message to the room.
Post(template, args) == [template |-> template, args |-> args]

\* str() of what Game.question gives: the question's text, or the four
\* characters "None".
Str(value) == IF value = <<>> THEN Text("None", 4, 0, 0) ELSE value[1].question

\* TriviaCommand.handles
Handles(cmd, g) == IF cmd = "!trivia" THEN TRUE ELSE g # <<>>

\* The deadline test without its "not".
ExpiredFlipped(dl, t) == dl > t

\* "not self.deadline > time()"
Expired(dl, t) == ~(dl > t)

\* What a handler leaves behind: the controller's fields, the pool, the
\* messages it posted, the exception it raised, the value it returned, the
\* Result of Game.check if it asked for one, and what reading Game.question
\* gave it ("unread" if it did not read it).
Outcome(g, dl, inst, msgs, raised, ret, res, asked) ==
    [game |-> g, deadline |-> dl, instance |-> inst, posted |-> msgs,
     raised |-> raised, ret |-> ret, res |-> res, asked |-> asked]

Asked(value) == IF value = <<>> THEN "None" ELSE "Question"

\* __call__ on !trivia without the test for a running game.
CallTriviaRestarts(g, dl, inst, remainder) ==
    Outcome(<<Game(ParseTowin(remainder))>>, 0, inst,
            <<Post("Started a trivia with {} to win", <<ParseTowin(remainder)>>)>>,
            "none", "True", "none", "unread")

\* __call__ on !trivia without the return after the leaderboard.
CallTriviaFallsThrough(g, dl, inst, remainder) ==
    Outcome(<<Game(ParseTowin(remainder))>>, 0, inst,
            (IF g # <<>> THEN <<Post("{}", <<GameStr(g[1])>>)>> ELSE <<>>)
                \o <<Post("Started a trivia with {} to win", <<ParseTowin(remainder)>>)>>,
            "none", "True", "none", "unread")

\* __call__ on !trivia without "self.deadline = 0".
CallTriviaKeepsDeadline(g, dl, inst, remainder) ==
    IF g # <<>>
    THEN Outcome(g, dl, inst, <<Post("{}", <<GameStr(g[1])>>)>>,
                 "none", "True", "none", "unread")
    ELSE Outcome(<<Game(ParseTowin(remainder))>>, dl, inst,
                 <<Post("Started a trivia with {} to win", <<ParseTowin(remainder)>>)>>,
                 "none", "True", "none", "unread")

\* __call__ on !trivia: the leaderboard of the running game, or a new game.
CallTrivia(g, dl, inst, remainder) ==
    IF g # <<>>
    THEN Outcome(g, dl, inst, <<Post("{}", <<GameStr(g[1])>>)>>,
                 "none", "True", "none", "unread")
    ELSE LET towin == ParseTowin(remainder)
         IN  Outcome(<<Game(towin)>>, 0, inst,
                     <<Post("Started a trivia with {} to win", <<towin>>)>>,
                     "none", "True", "none", "unread")

\* __call__ after Game.check without "self.deadline = 0" on CORRECT.
AnsweredKeepsDeadline(g, dl, inst, msg, c) ==
    IF c.raised # "none"
    THEN Outcome(g, dl, inst, <<>>, c.raised, "none", "none", "unread")
    ELSE IF c.res = "WON"
    THEN Outcome(<<>>, dl, inst,
                 <<Post("WE GOT A WINRAR! Congrats {}", <<msg.nick>>)>>,
                 "none", "True", c.res, "unread")
    ELSE IF c.res = "CORRECT"
    THEN Outcome(<<GameSkip(c.game)>>, dl, inst,
                 <<Post("Indeed, {}: {}", <<msg.nick, c.game._question[1].answer>>)>>,
                 "none", "True", c.res, "Question")
    ELSE Outcome(<<c.game>>, dl, inst, <<>>, "none", "False", c.res, "unread")

\* __call__ after Game.check without "self.game = None" on WON.
AnsweredKeepsGame(g, dl, inst, msg, c) ==
    IF c.raised # "none"
    THEN Outcome(g, dl, inst, <<>>, c.raised, "none", "none", "unread")
    ELSE IF c.res = "WON"
    THEN Outcome(<<c.game>>, dl, inst,
                 <<Post("WE GOT A WINRAR! Congrats {}", <<msg.nick>>)>>,
                 "none", "True", c.res, "unread")
    ELSE IF c.res = "CORRECT"
    THEN Outcome(<<GameSkip(c.game)>>, 0, inst,
                 <<Post("Indeed, {}: {}", <<msg.nick, c.game._question[1].answer>>)>>,
                 "none", "True", c.res, "Question")
    ELSE Outcome(<<c.game>>, dl, inst, <<>>, "none", "False", c.res, "unread")

\* __call__ after res = self.game.check(msg.nick, msg.msg) gave c.
Answered(g, dl, inst, msg, c) ==
    IF c.raised # "none"
    THEN Outcome(g, dl, inst, <<>>, c.raised, "none", "none", "unread")
    ELSE IF c.res = "WON"
    THEN Outcome(<<>>, dl, inst,
                 <<Post("WE GOT A WINRAR! Congrats {}", <<msg.nick>>)>>,
                 "none", "True", c.res, "unread")
    ELSE IF c.res = "CORRECT"
    THEN Outcome(<<GameSkip(c.game)>>, 0, inst,
                 <<Post("Indeed, {}: {}", <<msg.nick, c.game._question[1].answer>>)>>,
                 "none", "True", c.res, "Question")
    ELSE Outcome(<<c.game>>, dl, inst, <<>>, "none", "False", c.res, "unread")

\* __call__ on any other line: the line is an answer to the question.
CallAnswer(g, dl, inst, msg) ==
    Answered(g, dl, inst, msg, GameCheck(g[1], msg.nick, msg.msg))

\* TriviaCommand.__call__ on a line whose sender allowed() lets through or not.
Call(g, dl, inst, cmd, remainder, msg, allowed) ==
    IF ~allowed THEN Outcome(g, dl, inst, <<>>, "none", "False", "none", "unread")
    ELSE IF cmd = "!trivia" THEN CallTrivia(g, dl, inst, remainder)
    ELSE CallAnswer(g, dl, inst, msg)

\* onpulse without the timeout branch.
OnPulseNeverExpires(g, dl, inst, t, opentdb, jservice) ==
    IF g = <<>> THEN {Outcome(g, dl, inst, <<>>, "none", "None", "none", "unread")}
    ELSE IF dl = 0
    THEN {Outcome(<<q.game>>, t + Timeout, q.instance,
                  <<Post("{}", <<Str(q.value)>>)>>, "none", "None", "none",
                  Asked(q.value))
          : q \in GameQuestion(g[1], inst, opentdb, jservice)}
    ELSE {Outcome(g, dl, inst, <<>>, "none", "None", "none", "unread")}

\* TriviaCommand.onpulse at time t: the outcomes, one for each question the
\* pool can hand out.
OnPulse(g, dl, inst, t, opentdb, jservice) ==
    IF g = <<>> THEN {Outcome(g, dl, inst, <<>>, "none", "None", "none", "unread")}
    ELSE IF dl = 0
    THEN {Outcome(<<q.game>>, t + Timeout, q.instance,
                  <<Post("{}", <<Str(q.value)>>)>>, "none", "None", "none",
                  Asked(q.value))
          : q \in GameQuestion(g[1], inst, opentdb, jservice)}
    ELSE IF Expired(dl, t)
    THEN {IF q.value = <<>>
          THEN Outcome(<<q.game>>, dl, q.instance, <<>>, "AttributeError", "none", "none",
                       Asked(q.value))
          ELSE Outcome(<<GameSkip(q.game)>>, 0, q.instance,
                       <<Post("Too slow! Answer: {}", <<q.value[1].answer>>)>>,
                       "none", "None", "none", Asked(q.value))
          : q \in GameQuestion(g[1], inst, opentdb, jservice)}
    ELSE {Outcome(g, dl, inst, <<>>, "none", "None", "none", "unread")}

(***************************************************************************)
(* The state machine                                                       *)
(***************************************************************************)

\* The clock starts at Epoch, moves by one of TimeSteps and stops at MaxTime.
Epoch == 100
MaxTime == 145
TimeSteps == {15, 30}

\* The sources answer a request with items at most MaxFetches times; after
\* that every request fails.
MaxFetches == 1

\* A command word that is not !trivia: the first word of a chat line.
ChatCmd == "say"

VARIABLES
    game,       \* TriviaCommand.game: <<>> or <<the Game>>
    deadline,   \* TriviaCommand.deadline: 0 or a time
    instance,   \* Pool.instance: <<>> before its first use, then <<the Pool>>
    now,        \* what time() returns
    posted,     \* the messages the last step posted
    last,       \* the last step: its event, inputs and outcome
    matched,    \* per nick, the answers QuestionCheck accepted in this game
    fetches,    \* the seeds in which a source answered with items
    fetched,    \* what the sources answered to the seed of the last step:
                \* <<>> without a seed, else <<[opentdb, jservice]>>
    round       \* the questions the pool has handed out, numbered as drawn:
                \* how many, which one the game holds, which one is announced,
                \* whose answer the last step revealed, the last one answered

vars ==
    <<game, deadline, instance, now, posted, last, matched, fetches, fetched, round>>

Step(ev, nick, arg, allowed, o) ==
    [ev |-> ev, nick |-> nick, arg |-> arg, allowed |-> allowed,
     res |-> o.res, raised |-> o.raised, ret |-> o.ret, asked |-> o.asked]

NoOutcome == Outcome(<<>>, 0, <<>>, <<>>, "none", "None", "none", "unread")

Init ==
    /\ game = <<>>
    /\ deadline = 0
    /\ instance = <<>>
    /\ now = Epoch
    /\ posted = <<>>
    /\ last = Step("init", "", <<>>, TRUE, NoOutcome)
    /\ matched = [n \in Nicks |-> 0]
    /\ fetches = 0
    /\ fetched = <<>>
    /\ round = [drawn |-> 0, held |-> <<>>, announced |-> <<>>,
                revealed |-> <<>>, settled |-> 0]

\* The step of a handler with outcome o.
Apply(ev, nick, arg, allowed, o) ==
    /\ game' = o.game
    /\ deadline' = o.deadline
    /\ instance' = o.instance
    /\ posted' = o.posted
    /\ last' = Step(ev, nick, arg, allowed, o)

\* A !trivia line reaches __call__.  A line allowed() turns away is dropped
\* whatever it says.
TriviaFrom(alloweds, remainders) ==
    \E allowed \in alloweds :
        \E remainder \in IF allowed THEN remainders ELSE {<<>>} :
            /\ Handles("!trivia", game)
            /\ Apply("trivia", "", remainder, allowed,
                     Call(game, deadline, instance, "!trivia", remainder,
                          [nick |-> "alice", msg |-> <<>>], allowed))
            /\ matched' = IF allowed /\ game = <<>>
                          THEN [n \in Nicks |-> 0] ELSE matched
            /\ round' = IF allowed /\ game = <<>>
                        THEN [round EXCEPT !.held = <<>>, !.announced = <<>>,
                                           !.revealed = <<>>]
                        ELSE [round EXCEPT !.revealed = <<>>]
            /\ fetched' = <<>>
            /\ UNCHANGED <<now, fetches>>

Trivia == TriviaFrom(BOOLEAN, Remainders)

\* Any other line reaches __call__ when handles lets it.
ChatFrom(alloweds, texts, nicks) ==
    \E allowed \in alloweds :
        \E text \in IF allowed THEN texts ELSE {<<>>},
           nick \in IF allowed THEN nicks ELSE {"alice"} :
            /\ Handles(ChatCmd, game)
            /\ Apply("chat", nick, text, allowed,
                     Call(game, deadline, instance, ChatCmd, <<>>,
                          [nick |-> nick, msg |-> text], allowed))
            /\ matched' = IF /\ allowed
                             /\ game[1]._question # <<>>
                             /\ Check(game[1]._question[1], text)
                          THEN [matched EXCEPT ![nick] = @ + 1] ELSE matched
            /\ round' = IF last'.res \in {"CORRECT", "WON"}
                        THEN [round EXCEPT
                                 !.held = <<>>, !.announced = <<>>,
                                 !.revealed = IF last'.res = "CORRECT"
                                              THEN round.held ELSE <<>>,
                                 !.settled = round.held[1]]
                        ELSE [round EXCEPT !.revealed = <<>>]
            /\ fetched' = <<>>
            /\ UNCHANGED <<now, fetches>>

Chat == ChatFrom(BOOLEAN, ChatTexts, Nicks)

\* onpulse asks the pool for a question: it reads Game.question and the
\* game has none.
WouldAsk ==
    /\ game # <<>>
    /\ game[1]._question = <<>>
    /\ deadline = 0 \/ Expired(deadline, now)

\* onpulse would seed the pool: it reads Game.question, the game has no
\* question and the pool is empty.
WouldSeed ==
    /\ game # <<>>
    /\ game[1]._question = <<>>
    /\ deadline = 0 \/ Expired(deadline, now)
    /\ instance = <<>> \/ instance[1].questions = <<>>

\* The numbering of the questions over a pulse with outcome o.  The pool
\* handed out a question when the game had none and the handler read one.
Drawing(r, g, o) ==
    LET draw == g # <<>> /\ g[1]._question = <<>> /\ o.asked = "Question"
        drawn == IF draw THEN r.drawn + 1 ELSE r.drawn
        held == IF draw THEN <<drawn>> ELSE r.held
        template == IF o.posted = <<>> THEN "" ELSE o.posted[1].template
    IN  IF template = "{}"
        THEN [r EXCEPT !.drawn = drawn, !.held = held, !.announced = held,
                       !.revealed = <<>>]
        ELSE IF template = "Too slow! Answer: {}"
        THEN [r EXCEPT !.drawn = drawn, !.held = <<>>, !.announced = <<>>,
                       !.revealed = held]
        ELSE [r EXCEPT !.drawn = drawn, !.held = held, !.revealed = <<>>]

\* The pulse reaches onpulse.  The two sources answer as they like when they
\* are asked, and fail once they have answered MaxFetches times.
PulseFrom(responsesA, responsesB) ==
    \E opentdb \in IF WouldAsk /\ fetches < MaxFetches THEN responsesA ELSE {Raises},
       jservice \in IF WouldAsk /\ fetches < MaxFetches THEN responsesB ELSE {Raises} :
        \E o \in OnPulse(game, deadline, instance, now, opentdb, jservice) :
            /\ Apply("pulse", "", <<>>, TRUE, o)
            /\ fetches' = IF WouldSeed /\ ~(opentdb = Raises /\ jservice = Raises)
                          THEN fetches + 1 ELSE fetches
            /\ fetched' = IF WouldSeed
                          THEN <<[opentdb |-> opentdb, jservice |-> jservice]>>
                          ELSE <<>>
            /\ round' = Drawing(round, game, o)
            /\ UNCHANGED <<now, matched>>

Pulse == PulseFrom(ResponsesA, ResponsesB)

\* Time passes.
Pass ==
    \E d \in TimeSteps :
        /\ now + d <= MaxTime
        /\ now' = now + d
        /\ posted' = <<>>
        /\ last' = Step("pass", "", <<>>, TRUE, NoOutcome)
        /\ fetched' = <<>>
        /\ round' = [round EXCEPT !.revealed = <<>>]
        /\ UNCHANGED <<game, deadline, instance, matched, fetches>>

Next == Trivia \/ Chat \/ Pulse \/ Pass

Spec == Init /\ [][Next]_vars

\* The controller's own state.
ctl == <<game, deadline, instance, now>>

\* The program with its scheduling: the pulse keeps coming (PulseCommand
\* calls onpulse every interval) and time keeps passing.  One player, one
\* source, so that the runs without an end can be gone through.
FairNext ==
    \/ TriviaFrom({TRUE}, {<<"1">>, <<" ", "2", " ">>})
    \/ ChatFrom({TRUE}, {sTheCat, sDog}, {"alice"})
    \/ PulseFrom({Raises}, {Raises, Gives(<<bThe, bCat>>)})
    \/ Pass

FairSpec == Init /\ [][FairNext]_vars /\ WF_ctl(PulseFrom({Raises}, {Raises, Gives(<<bThe, bCat>>)})) /\ WF_ctl(Pass)

(***************************************************************************)
(* Properties                                                              *)
(***************************************************************************)

\* The step taken is the handling of an event of kind ev by a controller
\* with a game.
Handled(ev) == last'.ev = ev /\ last'.allowed /\ game # <<>>

\* C1: Game.check is never called while the game has no question: a chat
\* line that handles() lets through never raises ValueError("no question
\* asked").
C1_CheckAlwaysHasQuestion == last.raised # "ValueError"

\* C2: a pulse whose read of Game.question gave None (the pool was empty and
\* stayed empty after the seed) is a no-op: no message, the deadline unset,
\* no question, no exception.
C2_EmptyPoolPulseIsNoOp ==
    (last.ev = "pulse" /\ last.asked = "None") =>
        /\ posted = <<>>
        /\ deadline = 0
        /\ game # <<>> /\ game[1]._question = <<>>
        /\ last.raised = "none"

\* C3: with a game, the deadline unset and a question to give, a pulse sets
\* the deadline to now + 30 and posts the question's text; a pulse before the
\* deadline changes nothing and posts nothing; a pulse posts a question only
\* when it sets the deadline and has just drawn the question, so a question
\* is announced once.
C3_AnnouncedOnce ==
    [][Handled("pulse") =>
        /\ (deadline = 0 /\ last'.asked = "Question") =>
              /\ deadline' = now + 30
              /\ game' # <<>> /\ game'[1]._question # <<>>
              /\ posted' = <<Post("{}", <<game'[1]._question[1].question>>)>>
        /\ (deadline # 0 /\ deadline > now) =>
              /\ UNCHANGED <<game, deadline, instance>>
              /\ posted' = <<>>
        /\ (posted' # <<>> /\ posted'[1].template = "{}") =>
              /\ deadline = 0 /\ game[1]._question = <<>>
              /\ deadline' = now + 30
      ]_vars

\* C3's case: a pulse before the deadline of an announced question.
C3_Witness ==
    /\ last.ev = "pulse" /\ posted = <<>>
    /\ game # <<>> /\ game[1]._question # <<>>
    /\ deadline > now

\* C4: a pulse at or after the deadline posts the timeout message with the
\* answer of the question that was announced, clears the question, unsets the
\* deadline and keeps the game and its scores.
C4_ExpiredPulseReveals ==
    [][(Handled("pulse") /\ deadline # 0 /\ deadline <= now) =>
        /\ game[1]._question # <<>>
        /\ posted' = <<Post("Too slow! Answer: {}", <<game[1]._question[1].answer>>)>>
        /\ game' = <<[game[1] EXCEPT !._question = <<>>]>>
        /\ deadline' = 0
      ]_vars

\* C5: the answer that is the sender's towin-th accepted answer of the game
\* gives WON, clears the game (handles() then refuses chat lines) and posts
\* the victory message naming the sender; every accepted answer before it
\* gives CORRECT.
C5_WonAtThreshold ==
    [][(Handled("chat") /\ matched'[last'.nick] = matched[last'.nick] + 1) =>
        IF matched'[last'.nick] = game[1].towin
        THEN /\ last'.res = "WON"
             /\ game' = <<>>
             /\ ~Handles(ChatCmd, game')
             /\ posted' = <<Post("WE GOT A WINRAR! Congrats {}", <<last'.nick>>)>>
        ELSE /\ last'.res = "CORRECT"
             /\ matched'[last'.nick] < game[1].towin
      ]_vars

\* C5's case: a player wins with the second accepted answer.
C5_Witness ==
    /\ last.ev = "chat" /\ last.res = "WON"
    /\ matched[last.nick] = 2
    /\ game = <<>>

\* C6: an accepted answer that leaves the sender below the threshold gives
\* CORRECT: the sender's score grows by 1, the other scores stay, the reply
\* shows the answer of the question that was checked, nothing is drawn from
\* the pool, the question is cleared, the deadline unset, the game kept.
C6_CorrectAnswer ==
    [][(Handled("chat") /\ matched'[last'.nick] = matched[last'.nick] + 1
            /\ CountOf(game[1].counts, last'.nick) + 1 < game[1].towin) =>
        /\ last'.res = "CORRECT"
        /\ game' # <<>>
        /\ game'[1].towin = game[1].towin
        /\ \A n \in Nicks :
              CountOf(game'[1].counts, n) =
                  CountOf(game[1].counts, n) + (IF n = last'.nick THEN 1 ELSE 0)
        /\ posted' = <<Post("Indeed, {}: {}", <<last'.nick, game[1]._question[1].answer>>)>>
        /\ instance' = instance
        /\ game'[1]._question = <<>>
        /\ deadline' = 0
      ]_vars

\* C6's case: a correct answer in a game where the other player has a score.
C6_Witness ==
    /\ last.ev = "chat" /\ last.res = "CORRECT"
    /\ game # <<>> /\ Len(game[1].counts) = 2
    /\ deadline = 0

\* C7: an answer that is not accepted changes neither the game, its question
\* and scores nor the deadline, posts nothing and is returned as not consumed.
C7_IncorrectChangesNothing ==
    [][(Handled("chat") /\ last'.res = "INCORRECT") =>
        /\ UNCHANGED <<game, deadline, instance>>
        /\ posted' = <<>>
        /\ last'.ret = "False"
      ]_vars

\* C7's case: a wrong answer to an announced question.
C7_Witness ==
    /\ last.ev = "chat" /\ last.res = "INCORRECT"
    /\ game # <<>> /\ game[1]._question # <<>> /\ deadline # 0

\* C8: !trivia during a game changes no state whatever its argument and
\* posts one message, the leaders: the players by falling score, each with
\* their score.
C8_StartWhileActive ==
    [][Handled("trivia") =>
        /\ UNCHANGED <<game, deadline, instance>>
        /\ Len(posted') = 1
        /\ posted'[1].template = "{}"
        /\ LET scores == posted'[1].args[1].scores
           IN  /\ posted'[1].args[1].prefix = "Leaders: "
               /\ {scores[i][2] : i \in 1..Len(scores)} =
                      {n \in Nicks : CountOf(game[1].counts, n) > 0}
               /\ \A i \in 1..Len(scores) :
                      /\ scores[i][1] = i
                      /\ scores[i][3] = CountOf(game[1].counts, scores[i][2])
                      /\ \A j \in 1..Len(scores) : i < j => scores[i][3] >= scores[j][3]
      ]_vars

\* C8's case: !trivia with an argument during a game with scores.
C8_Witness ==
    /\ last.ev = "trivia" /\ last.allowed /\ last.arg = <<"1">>
    /\ posted # <<>> /\ posted[1].template = "{}"
    /\ game # <<>> /\ game[1].towin = 5 /\ Len(game[1].counts) = 2

\* The step before was a !trivia that started a game.
Started ==
    /\ last.ev = "trivia" /\ last.allowed
    /\ posted # <<>> /\ posted[1].template = "Started a trivia with {} to win"

\* C9 as claimed: the threshold of a new game is the argument's value n when
\* n >= 1, and 5 when the argument is no number or n <= 0.
C9_FiveUnlessPositive ==
    Started =>
        /\ game # <<>>
        /\ game[1].towin = IF IntOf(last.arg) # <<>> /\ IntOf(last.arg)[1] >= 1
                           THEN IntOf(last.arg)[1] ELSE 5

\* C9 as the code has it: the threshold of a new game is the argument's value
\* n when n >= 1, 1 when n <= 0, and 5 when the argument is no number; it is
\* always an integer >= 1.
C9_ClampedOrFive ==
    Started =>
        /\ game # <<>>
        /\ game[1].towin \in Nat /\ game[1].towin >= 1
        /\ game[1].towin = IF IntOf(last.arg) = <<>> THEN 5
                           ELSE IF IntOf(last.arg)[1] >= 1 THEN IntOf(last.arg)[1]
                           ELSE 1
        /\ posted = <<Post("Started a trivia with {} to win", <<game[1].towin>>)>>

\* C9's case: a game started with the argument -1.
C9_Witness ==
    /\ Started
    /\ last.arg = <<"-", "1">>
    /\ game # <<>> /\ game[1].towin = 1

\* C10: a handled event posts no message or one.
C10_AtMostOneMessage == Len(posted) <= 1

\* C10's case: !trivia during a game, which posts.
C10_Witness ==
    /\ last.ev = "trivia" /\ last.allowed
    /\ Len(posted) = 1 /\ posted[1].template = "{}"

\* The step before was a pulse that seeded the empty pool and announced what
\* the pool gave.
SeedAnnounced ==
    /\ last.ev = "pulse" /\ fetched # <<>>
    /\ posted # <<>> /\ posted[1].template = "{}"

\* After such a pulse, the pool as the seed left it: what is still in it and
\* the question the game drew.
AfterSeed == instance[1].questions \o game[1]._question

\* The names of the questions of a list of questions, and of the items of a
\* response that satisfy valid.
Bodies(questions) == {questions[k].question.body : k \in 1..Len(questions)}
ItemBodies(response, valid(_)) ==
    {response.items[k].question.body :
        k \in {n \in 1..Len(response.items) : valid(response.items[n])}}

\* A source fails: its fetch raises or one of its items cannot be processed.
Fails(response) ==
    response.raises \/ \E k \in 1..Len(response.items) : response.items[k].bad

\* A valid item: complete, rendered in at most 300 characters and, from
\* jservice, with a declared value from 1 to 800.
ValidA(i) ==
    /\ ~i.bad
    /\ \A r \in Renderings(i) : Prefixed("Trivia: ", 8, r).len <= 300
ValidB(i) ==
    /\ ~i.bad
    /\ i.value # <<>> /\ i.value[1] >= 1 /\ i.value[1] <= 800
    /\ i.question.len + 8 <= 300

\* C11: in a refill a source that fails (the fetch raises or an item raises)
\* adds no question, no exception leaves seed(), and the pool is exactly the
\* valid items of the sources that did not fail.
C11_FailedSourceGivesNothing ==
    SeedAnnounced =>
        /\ last.raised = "none"
        /\ Bodies(AfterSeed) =
              (IF Fails(fetched[1].opentdb) THEN {}
               ELSE ItemBodies(fetched[1].opentdb, ValidA))
              \cup (IF Fails(fetched[1].jservice) THEN {}
                    ELSE ItemBodies(fetched[1].jservice, ValidB))
        /\ Len(AfterSeed) = Cardinality(Bodies(AfterSeed))

\* The chat texts that Question.cleanup leaves nothing of.
Blank == UNION {IF Cleanup(t) = <<>> THEN {t} ELSE {} : t \in ChatTexts}

\* C12 as claimed: Question.check refuses a submission that is empty or
\* normalizes to empty, and accepts the question's own answer text as the
\* submission, whatever that text is.
C12_OwnAnswerAccepted ==
    [][(Handled("chat") /\ game[1]._question # <<>>) =>
        /\ last'.arg \in Blank => last'.res = "INCORRECT"
        /\ last'.arg = game[1]._question[1].answer =>
              last'.res \in {"CORRECT", "WON"}
      ]_vars

\* C12 as the code has it: Question.check refuses a submission that is empty
\* or normalizes to empty, the question's own answer text included, and
\* accepts the question's own answer text when it does not normalize to
\* empty.
C12_OwnAnswerUnlessBlank ==
    [][(Handled("chat") /\ game[1]._question # <<>>) =>
        /\ last'.arg \in Blank => last'.res = "INCORRECT"
        /\ (last'.arg = game[1]._question[1].answer /\ last'.arg \notin Blank) =>
              last'.res \in {"CORRECT", "WON"}
      ]_vars

\* C12's case: a player types the answer as the source gave it and is right.
C12_Witness ==
    /\ last.ev = "chat" /\ last.res = "CORRECT"
    /\ posted = <<Post("Indeed, {}: {}", <<last.nick, last.arg>>)>>

\* C13: while a game runs, the game has no question exactly when the
\* deadline is unset; a set deadline belongs to a question that is there.
C13_QuestionIffDeadline ==
    game # <<>> => (game[1]._question = <<>> <=> deadline = 0)

\* C14: a !trivia that creates a game leaves the deadline unset, the scores
\* empty and no question, whatever the deadline was before; the pulse that
\* follows takes the announcing branch (it sets the deadline to now + 30 and
\* posts what the pool gave) and never the timeout.
C14_StartIsClean ==
    [][/\ (last'.ev = "trivia" /\ last'.allowed /\ game = <<>>) =>
              /\ game' # <<>>
              /\ deadline' = 0
              /\ game'[1].counts = <<>>
              /\ game'[1]._question = <<>>
       /\ (last'.ev = "pulse" /\ Started) =>
              /\ deadline' = now + 30
              /\ Len(posted') = 1 /\ posted'[1].template = "{}"
              /\ last'.asked = "Question" =>
                    /\ game'[1]._question # <<>>
                    /\ posted'[1].args = <<game'[1]._question[1].question>>
      ]_vars

\* C14's case: a game started after an earlier game was won, whose last
\* question had a deadline.
C14_Witness ==
    /\ Started
    /\ round.settled >= 1
    /\ deadline = 0 /\ game[1].counts = <<>> /\ game[1]._question = <<>>

\* self.questions of the pool, empty while the class has no instance.
PoolOf(inst) == IF inst = <<>> THEN <<>> ELSE inst[1].questions

\* The step hands the game the question q of the pool: an announcing pulse
\* leaves it in the game, a timeout pulse reveals its answer and skips it.
Hands(q) ==
    IF game'[1]._question # <<>> THEN game'[1]._question = <<q>>
    ELSE /\ Len(posted') = 1
         /\ posted'[1] = Post("Too slow! Answer: {}", <<q.answer>>)

\* C15: get_question hands out the last question of the pool and removes
\* it; it seeds only an empty pool, and then the pool and the question handed
\* out are together what the seed enqueued; it gives None exactly when the
\* seed enqueued nothing; no other step touches the pool.  So a question
\* enqueued once is handed out at most once.
C15_PoppedOnce ==
    [][IF last'.ev = "pulse" /\ WouldAsk
       THEN /\ instance' # <<>>
            /\ IF PoolOf(instance) # <<>>
               THEN /\ last'.asked = "Question"
                    /\ Len(PoolOf(instance')) = Len(PoolOf(instance)) - 1
                    /\ PoolOf(instance) =
                          PoolOf(instance') \o <<PoolOf(instance)[Len(PoolOf(instance))]>>
                    /\ Hands(PoolOf(instance)[Len(PoolOf(instance))])
               ELSE /\ fetched' # <<>>
                    /\ last'.asked = "None" <=>
                          Seed(<<>>, fetched'[1].opentdb, fetched'[1].jservice) = {<<>>}
                    /\ last'.asked = "None" => PoolOf(instance') = <<>>
                    /\ last'.asked = "Question" =>
                          \E q \in Seed(<<>>, fetched'[1].opentdb, fetched'[1].jservice) :
                              /\ q = PoolOf(instance') \o <<q[Len(q)]>>
                              /\ Hands(q[Len(q)])
       ELSE PoolOf(instance') = PoolOf(instance)
      ]_vars

\* C15's case: the second question of a game comes from the pool the first
\* seed left, without a new seed.
C15_Witness ==
    /\ last.ev = "pulse" /\ fetched = <<>>
    /\ round.held = <<2>>
    /\ game # <<>> /\ game[1]._question # <<>>

\* The jservice items of a response that the loop of seed gets through: those
\* before the first item that cannot be processed.
Processed(response) ==
    {response.items[k] :
        k \in {n \in 1..Len(response.items) :
                  \A m \in 1..n : ~response.items[m].bad}}

\* C16 as claimed: in a refill a jservice item whose rendered question has at
\* most 300 characters is left out exactly when its declared value is above
\* 800; an item without a value or with the value 0 is enqueued.
C16_SkippedOnlyAbove800 ==
    SeedAnnounced =>
        \A i \in Processed(fetched[1].jservice) :
            i.question.len + 8 <= 300 =>
                (i.question.body \in Bodies(AfterSeed)
                    <=> ~(i.value # <<>> /\ i.value[1] > 800))

\* C16 as the code has it: such an item is enqueued exactly when it declares
\* a value that is not 0 and at most 800; an item without a value or with the
\* value 0 counts as 1000 and is left out.
C16_SkippedAbove800OrUnvalued ==
    SeedAnnounced =>
        \A i \in Processed(fetched[1].jservice) :
            i.question.len + 8 <= 300 =>
                (i.question.body \in Bodies(AfterSeed)
                    <=> (i.value # <<>> /\ i.value[1] # 0 /\ i.value[1] <= 800))

\* C16's case: a refill from items without a value, with the value 0 and
\* with the value 800, of which the last is in the pool.
C16_Witness ==
    /\ SeedAnnounced
    /\ {bNoValue, bZero, bCat} \subseteq Processed(fetched[1].jservice)
    /\ "pet" \in Bodies(AfterSeed)

\* C17: while a game runs every player's score is below the threshold and
\* is the number of the player's accepted answers; from step to step of a
\* game no score decreases; the answer that takes a score to the threshold
\* is the one that gives WON, and that step clears the game.
C17_ScoresBelowThreshold ==
    /\ [](game # <<>> =>
            \A n \in Nicks :
                /\ CountOf(game[1].counts, n) < game[1].towin
                /\ CountOf(game[1].counts, n) = matched[n])
    /\ [][/\ (game # <<>> /\ game' # <<>>) =>
                \A n \in Nicks :
                    CountOf(game'[1].counts, n) >= CountOf(game[1].counts, n)
          /\ Handled("chat") =>
                (matched'[last'.nick] >= game[1].towin
                    <=> last'.res = "WON" /\ game' = <<>>)
         ]_vars

\* C17's case: a running game in which a player is one answer short of the
\* threshold 2.
C17_Witness ==
    /\ game # <<>> /\ game[1].towin = 2
    /\ CountOf(game[1].counts, "bob") = 1
    /\ last.res = "CORRECT"

\* The step posts an answer: the timeout message or the reply to a correct
\* answer.
Reveals ==
    /\ posted' # <<>>
    /\ posted'[1].template \in {"Too slow! Answer: {}", "Indeed, {}: {}"}

\* C18: an answer the controller reveals is the answer of the question the
\* game held before the step, which a pulse had announced; a question drawn
\* from the pool is announced by the step that draws it, so none is skipped
\* unannounced.
C18_RevealsOnlyAnnounced ==
    [][/\ Reveals =>
              /\ game # <<>> /\ game[1]._question # <<>>
              /\ posted'[1].args[Len(posted'[1].args)] = game[1]._question[1].answer
              /\ round.announced = round.held
              /\ round'.revealed = round.announced
       /\ round'.drawn # round.drawn =>
              /\ round'.held = <<round'.drawn>>
              /\ round'.announced = round'.held
              /\ posted' = <<Post("{}", <<game'[1]._question[1].question>>)>>
      ]_vars

\* C19: an answer that Question.check accepts and that arrives when the
\* deadline has passed and no pulse has handled it yet is scored like any
\* other, CORRECT or WON; the step ends the question (the game is gone, or
\* the question is cleared and the deadline unset), and a timeout message is
\* only ever posted for a question drawn after the last one answered.
C19_LateAnswerCounts ==
    [][/\ (/\ Handled("chat") /\ game[1]._question # <<>>
           /\ deadline # 0 /\ deadline <= now
           /\ Check(game[1]._question[1], last'.arg)) =>
              /\ last'.res \in {"CORRECT", "WON"}
              /\ Len(posted') = 1
              /\ posted'[1].template \in
                    {"Indeed, {}: {}", "WE GOT A WINRAR! Congrats {}"}
              /\ round'.settled = round.held[1]
              /\ \/ game' = <<>>
                 \/ game'[1]._question = <<>> /\ deadline' = 0
       /\ (posted' # <<>> /\ posted'[1].template = "Too slow! Answer: {}") =>
              /\ round'.revealed # <<>>
              /\ round'.revealed[1] > round.settled
      ]_vars

\* C19's case: a player has won with an answer that came after the deadline.
C19_Witness ==
    /\ last.ev = "chat" /\ last.res = "WON"
    /\ game = <<>>
    /\ deadline # 0 /\ deadline <= now

\* The numbers the questions of a run can get: a seed enqueues at most the
\* two questions of the largest answer of FairNext's source.
Serials == 1..(2 * MaxFetches)

\* C20: with the pulse kept coming and time passing, every announced
\* question is followed by its CORRECT reply, its WON message or its timeout
\* message (the model's clock stops at MaxTime, so this is about the
\* questions whose deadline it reaches); the deadline is the time of the
\* announcement + 30; a pulse before the deadline posts no timeout, and the
\* first pulse at or after it posts the timeout message with the answer.
C20_QuestionEnds ==
    /\ \A n \in Serials :
          (round.announced = <<n>> /\ deadline # 0 /\ deadline <= MaxTime)
              ~> (round.settled = n \/ round.revealed = <<n>>)
    /\ [][/\ round'.announced # round.announced /\ round'.announced # <<>> =>
                deadline' = now + 30
          /\ (last'.ev = "pulse" /\ round.announced # <<>>) =>
                IF deadline <= now
                THEN /\ posted' =
                          <<Post("Too slow! Answer: {}", <<game[1]._question[1].answer>>)>>
                     /\ round'.revealed = round.announced
                ELSE posted' = <<>> /\ round'.announced = round.announced
         ]_vars

\* C20's case: nobody answered the first question and the pulse revealed
\* its answer.
C20_Witness ==
    /\ last.ev = "pulse"
    /\ Len(posted) = 1 /\ posted[1].template = "Too slow! Answer: {}"
    /\ round.revealed = <<1>> /\ round.settled = 0
    /\ now >= Epoch + 30

====
